---- MODULE Spec2Model ----
(***************************************************************************)
(* Family Office News Tracker (src/app.py): the fetch / normalise /        *)
(* filter / dedupe / persist pipeline and the read-back query.             *)
(*                                                                         *)
(* Instants are integers: t = seconds * MicrosPerSec + microseconds.       *)
(* A timezone-aware UTC datetime is its instant.  Text is a sequence of    *)
(* character codes (ISO strings) or of tokens (titles, links).             *)
(***************************************************************************)
EXTENDS Integers, Sequences, FiniteSets, TLC

VARIABLES
    now,               \* the wall clock, datetime.now(timezone.utc)
    NEWS_CUTOFF_DATE,  \* module global, set when app.py is executed
    news,              \* the rows of table news in DB_FILE
    pc,                \* "idle" | "fetching" | "parsed" | "returned"
    offices,           \* fetch_news_google: the entities still to visit
    per_office,        \* fetch_news_google: the per-entity cap
    limit,             \* fetch_all_news: the limit of the last read
    feed,              \* fetch_news_google: the response being processed
    served,            \* the entries the provider has answered with in this run
    results,           \* fetch_news_google: the list built so far
    op,                \* the call that returned last
    ret,               \* its return value
    raised,            \* whether it ended with an exception
    deleted            \* history: the links the last clear_all_news removed,
                       \* kept until the next fetch run returns

vars == <<now, NEWS_CUTOFF_DATE, news, pc, offices, per_office, limit, feed, served,
          results, op, ret, raised, deleted>>

----------------------------------------------------------------------------
(* Bounds of the model *)

\* sub-second resolution of an instant (a second has 10^6 microseconds)
MicrosPerSec == 2
\* the clock runs from StartNow to MaxNow
MaxNow == 3
\* the most entries the provider answers with in one run: in the runs about
\* the cap, about the store and the loop, about the clock
MaxServed == 3
MaxServedStore == 2
MaxServedClock == 1
\* the most rows of a table the read is tried on
MaxRows == 3
\* the largest LIMIT the read is tried with, besides the script's
MaxLimit == 3

\* timedelta(days=60), in instants of the model
WindowLen == 2
\* fetch_news_google(family_offices, per_office=20)
PerOfficeDefault == 20
\* fetch_all_news(limit=200) of the display
DisplayLimit == 200

StartNow == WindowLen
Instants == 0..MaxNow
Seconds == 0..(MaxNow \div MicrosPerSec)

Min(a, b) == IF a <= b THEN a ELSE b

----------------------------------------------------------------------------
(* Text *)

Space == " "

\* str.strip(): surrounding whitespace removed
RECURSIVE LStrip(_)
LStrip(s) == IF s # <<>> /\ Head(s) = Space THEN LStrip(Tail(s)) ELSE s

RECURSIVE RStrip(_)
RStrip(s) ==
    IF s # <<>> /\ s[Len(s)] = Space THEN RStrip(SubSeq(s, 1, Len(s) - 1)) ELSE s

Strip(s) == RStrip(LStrip(s))

\* character codes of the ISO text
ChPlus == 43
ChDot == 46
ChZero == 48
Digit(d) == ChZero + d

\* datetime.isoformat() of a UTC datetime: zero-padded fields, the fraction
\* only when the microsecond is not 0, then the offset.  The date and time
\* fields are one zero-padded two-digit number here.
IsoFormat(t) ==
    LET s == t \div MicrosPerSec
        u == t % MicrosPerSec
    IN  <<Digit(s \div 10), Digit(s % 10)>>
        \o (IF u = 0 THEN <<>> ELSE <<ChDot, Digit(u)>>)
        \o <<ChPlus>>

\* SQLite's comparison of TEXT under the BINARY collation (memcmp, then length)
TextLess(a, b) ==
    \E k \in 0..Min(Len(a), Len(b)) :
        /\ \A i \in 1..k : a[i] = b[i]
        /\ \/ k = Len(a) /\ k < Len(b)
           \/ k < Len(a) /\ k < Len(b) /\ a[k + 1] < b[k + 1]

TextGeq(a, b) == ~TextLess(a, b)

----------------------------------------------------------------------------
(* The table news: id INTEGER PRIMARY KEY, link TEXT UNIQUE *)

GoogleNews == "Google News"

NextId(rows) ==
    IF rows = {} THEN 1
    ELSE (CHOOSE m \in {r.id : r \in rows} : \A r \in rows : r.id <= m) + 1

\* Mutant: the table lacks the UNIQUE constraint on link
InsertRowNoUnique(rows, vals) ==
    [exc |-> "none",
     news |-> rows \cup {[id |-> NextId(rows),
                          family_office |-> vals.family_office,
                          title |-> vals.title,
                          link |-> vals.link,
                          published |-> vals.published,
                          source |-> vals.source]}]

\* INSERT INTO news (...) VALUES (...): the UNIQUE constraint on link
InsertRow(rows, vals) ==
    IF \E r \in rows : r.link = vals.link
    THEN [exc |-> "IntegrityError", news |-> rows]
    ELSE [exc |-> "none",
          news |-> rows \cup {[id |-> NextId(rows),
                               family_office |-> vals.family_office,
                               title |-> vals.title,
                               link |-> vals.link,
                               published |-> vals.published,
                               source |-> vals.source]}]

\* Mutant: INSERT OR REPLACE, the row of a known link is overwritten
save_article_replace(rows, family_office, title, link, published_iso, source) ==
    LET kept == {r \in rows : r.link # link}
    IN  [news |-> kept \cup {[id |-> NextId(rows),
                              family_office |-> family_office,
                              title |-> title,
                              link |-> link,
                              published |-> published_iso,
                              source |-> source]},
         raised |-> FALSE]

\* save_article: the IntegrityError of a duplicate link is swallowed
save_article(rows, family_office, title, link, published_iso, source) ==
    LET r == InsertRow(rows, [family_office |-> family_office, title |-> title,
                              link |-> link, published |-> published_iso,
                              source |-> source])
    IN  [news |-> r.news, raised |-> r.exc \notin {"none", "IntegrityError"}]

\* Mutant: the DELETE spares the first row
clear_all_news_partial(rows) == {r \in rows : r.id = 1}

\* clear_all_news: DELETE FROM news
clear_all_news(rows) == {}

\* Mutant: ORDER BY published, ascending
OrderByPublishedAsc(S) ==
    {q \in [1..Cardinality(S) -> S] :
        /\ \A i, j \in 1..Cardinality(S) : i # j => q[i] # q[j]
        /\ \A i, j \in 1..Cardinality(S) :
               i < j => ~TextLess(q[j].published, q[i].published)}

\* The orders SQLite may return the rows S in under ORDER BY published DESC
OrderByPublishedDesc(S) ==
    {q \in [1..Cardinality(S) -> S] :
        /\ \A i, j \in 1..Cardinality(S) : i # j => q[i] # q[j]
        /\ \A i, j \in 1..Cardinality(S) :
               i < j => ~TextLess(q[i].published, q[j].published)}

\* LIMIT n: a negative n is no limit
SqlLimit(q, n) == IF n < 0 THEN q ELSE SubSeq(q, 1, Min(n, Len(q)))

\* fetch_all_news: the results the query may give
fetch_all_news(rows, cutoffDate, n) ==
    LET sel == {r \in rows : TextGeq(r.published, IsoFormat(cutoffDate))}
    IN  {SqlLimit(q, n) : q \in OrderByPublishedDesc(sel)}

----------------------------------------------------------------------------
(* Timestamp normaliser *)

Has(entry, key) == key \in DOMAIN entry

\* datetime(*struct[:6], tzinfo=timezone.utc): ValueError on a field out of
\* range.  A struct_time has whole seconds.
DatetimeOfStruct(st) ==
    IF st.sec \in Seconds
    THEN [exc |-> "none", dt |-> st.sec * MicrosPerSec]
    ELSE [exc |-> "ValueError", dt |-> 0]

\* pd.to_datetime(text, utc=True).to_pydatetime(): the local time of the text
\* moved to UTC by its offset; an exception on text that is no date
ToDatetimeUtc(text) ==
    IF text.kind = "date"
    THEN [exc |-> "none", dt |-> text.local - text.off]
    ELSE [exc |-> "ParserError", dt |-> 0]

\* entry.get(key) as a condition: a missing key and an empty string are false
Truthy(entry, key) ==
    /\ Has(entry, key)
    /\ ~(key = "published" /\ entry[key].kind = "empty")

\* Mutant: the updated time is tried first
StructKeysSwapped == <<"updated_parsed", "published_parsed">>

\* for key in ("published_parsed", "updated_parsed")
StructKeys == <<"published_parsed", "updated_parsed">>

\* "except Exception: pass" catches whatever the conversion raised
ExceptException(exc) == exc # "none"

\* the loop over the structured keys: the first that is set and converts
RECURSIVE StructLoop(_, _)
StructLoop(entry, i) ==
    IF i > Len(StructKeys) THEN [found |-> FALSE, raised |-> FALSE, dt |-> 0]
    ELSE IF Truthy(entry, StructKeys[i])
         THEN LET r == DatetimeOfStruct(entry[StructKeys[i]])
              IN  IF r.exc = "none"
                  THEN [found |-> TRUE, raised |-> FALSE, dt |-> r.dt]
                  ELSE IF ExceptException(r.exc)
                       THEN StructLoop(entry, i + 1)
                       ELSE [found |-> FALSE, raised |-> TRUE, dt |-> 0]
         ELSE StructLoop(entry, i + 1)

\* the free-text step and the fallback to datetime.now(timezone.utc)
TextStep(entry, clock) ==
    IF Truthy(entry, "published")
    THEN LET r == ToDatetimeUtc(entry["published"])
         IN  IF r.exc = "none" THEN [raised |-> FALSE, dt |-> r.dt]
             ELSE IF ExceptException(r.exc)
                  THEN [raised |-> FALSE, dt |-> clock]
                  ELSE [raised |-> TRUE, dt |-> 0]
    ELSE [raised |-> FALSE, dt |-> clock]

\* parse_entry_published: [raised, dt]
parse_entry_published(entry, clock) ==
    LET s == StructLoop(entry, 1)
    IN  IF s.raised THEN [raised |-> TRUE, dt |-> 0]
        ELSE IF s.found THEN [raised |-> FALSE, dt |-> s.dt]
        ELSE TextStep(entry, clock)

----------------------------------------------------------------------------
(* Fetch pipeline *)

\* entry.get(key, "").strip()
GetStripped(entry, key) == Strip(IF Has(entry, key) THEN entry[key] ELSE <<>>)

\* Mutant: the slice is forgotten
Uncapped(entries, cap) == entries

\* feed.entries[:per_office]
Capped(entries, cap) == SubSeq(entries, 1, Min(cap, Len(entries)))

\* Mutant: the boundary instant is dropped too
TooOldOrEqual(dt, cutoffDate) == dt <= cutoffDate

\* "if published_dt < NEWS_CUTOFF_DATE: continue"
TooOld(dt, cutoffDate) == dt < cutoffDate

\* the dict appended to results
ResultOf(fo, title, link, published_iso) ==
    [family_office |-> fo, title |-> title, link |-> link,
     published |-> published_iso, source |-> GoogleNews]

\* Mutant: only an entry the store took is appended to results
ProcessEntryNewOnly(acc, fo, entry, cutoffDate, clock) ==
    LET title == GetStripped(entry, "title")
        link == GetStripped(entry, "link")
        p == parse_entry_published(entry, clock)
    IN  IF p.raised THEN [acc EXCEPT !.raised = TRUE]
        ELSE IF TooOld(p.dt, cutoffDate) THEN acc
        ELSE LET published_iso == IsoFormat(p.dt)
                 s == save_article(acc.news, fo, title, link, published_iso,
                                   GoogleNews)
             IN  [news |-> s.news,
                  results |-> IF s.news = acc.news THEN acc.results
                              ELSE Append(acc.results,
                                          ResultOf(fo, title, link, published_iso)),
                  raised |-> FALSE]

\* one pass of the inner loop: acc is [news, results, raised]
ProcessEntry(acc, fo, entry, cutoffDate, clock) ==
    LET title == GetStripped(entry, "title")
        link == GetStripped(entry, "link")
        p == parse_entry_published(entry, clock)
    IN  IF p.raised THEN [acc EXCEPT !.raised = TRUE]
        ELSE IF TooOld(p.dt, cutoffDate) THEN acc
        ELSE LET published_iso == IsoFormat(p.dt)
                 s == save_article(acc.news, fo, title, link, published_iso,
                                   GoogleNews)
             IN  IF s.raised THEN [acc EXCEPT !.raised = TRUE]
                 ELSE [news |-> s.news,
                       results |-> Append(acc.results,
                                          ResultOf(fo, title, link, published_iso)),
                       raised |-> FALSE]

\* the inner loop over feed.entries[:per_office]; an exception ends it
RECURSIVE ProcessEntries(_, _, _, _, _)
ProcessEntries(acc, fo, entries, cutoffDate, clock) ==
    IF entries = <<>> \/ acc.raised THEN acc
    ELSE ProcessEntries(ProcessEntry(acc, fo, Head(entries), cutoffDate, clock),
                        fo, Tail(entries), cutoffDate, clock)

\* Mutant: the bozo flag is not looked at
ProcessFeedOfAnyway(acc, fo, f, cap, cutoffDate, clock) ==
    ProcessEntries(acc, fo, Capped(f.entries, cap), cutoffDate, clock)

\* the body of the outer loop for one entity: a bozo feed is skipped
ProcessFeedOf(acc, fo, f, cap, cutoffDate, clock) ==
    IF f.bozo THEN acc
    ELSE ProcessEntries(acc, fo, Capped(f.entries, cap), cutoffDate, clock)

----------------------------------------------------------------------------
(* The environment: what the provider may answer and the callers may pass *)

NoFeed == [bozo |-> FALSE, entries |-> <<>>]

SeqsUpTo(S, n) == UNION {[1..k -> S] : k \in 0..n}

FeedsOf(env) == [bozo : BOOLEAN, entries : SeqsUpTo(env.entries, env.budget)]

\* entries of the provider: a dict with the keys it chose to set
EntriesOf(links, titles, times) ==
    {[link |-> l, title |-> t] @@ tf : l \in links, t \in titles, tf \in times}

\* the entities, the provider's entries and the arguments of the store runs
EnvStore ==
    [lists |-> {<<"A">>, <<"B">>, <<"A", "B">>},
     entries |-> EntriesOf({<<"l1">>, <<" ", "l2", " ">>}, {<<"t">>, <<" ", "u">>},
                           {[published_parsed |-> [sec |-> 1]]}),
     budget |-> MaxServedStore,
     caps |-> {PerOfficeDefault},
     limits |-> {0, 1, DisplayLimit}]

----------------------------------------------------------------------------
(* Operations *)

Init ==
    /\ now = StartNow
    /\ NEWS_CUTOFF_DATE = StartNow - WindowLen
    /\ news = {}
    /\ pc = "idle"
    /\ offices = <<>>
    /\ per_office = 0
    /\ limit = 0
    /\ feed = NoFeed
    /\ served = 0
    /\ results = <<>>
    /\ op = "none"
    /\ ret = <<>>
    /\ raised = FALSE
    /\ deleted = {}

\* time passes
Tick ==
    /\ now < MaxNow
    /\ now' = now + 1
    /\ UNCHANGED <<NEWS_CUTOFF_DATE, news, pc, offices, per_office, limit, feed,
                   served, results, op, ret, raised, deleted>>

\* app.py is executed again (a rerun of the script, a restart of the process):
\* the cutoff is computed anew and init_db finds the table
ModuleLoad ==
    /\ pc = "idle"
    /\ NEWS_CUTOFF_DATE' = now - WindowLen
    /\ UNCHANGED <<now, news, pc, offices, per_office, limit, feed, served,
                   results, op, ret, raised, deleted>>

ClearAllNews ==
    /\ pc = "idle"
    /\ news' = clear_all_news(news)
    /\ deleted' = {r.link : r \in news}
    /\ op' = "clear_all_news"
    /\ ret' = <<>>
    /\ raised' = FALSE
    /\ pc' = "returned"
    /\ UNCHANGED <<now, NEWS_CUTOFF_DATE, offices, per_office, limit, feed, served,
                   results>>

FetchAllNews(n) ==
    /\ pc = "idle"
    /\ limit' = n
    /\ ret' \in fetch_all_news(news, NEWS_CUTOFF_DATE, n)
    /\ op' = "fetch_all_news"
    /\ raised' = FALSE
    /\ pc' = "returned"
    /\ UNCHANGED <<now, NEWS_CUTOFF_DATE, news, offices, per_office, feed, served,
                   results, deleted>>

\* fetch_news_google is entered
FetchNewsGoogle(family_offices, cap) ==
    /\ pc = "idle"
    /\ offices' = family_offices
    /\ per_office' = cap
    /\ results' = <<>>
    /\ served' = 0
    /\ pc' = "fetching"
    /\ UNCHANGED <<now, NEWS_CUTOFF_DATE, news, limit, feed, op, ret, raised,
                   deleted>>

\* feedparser.parse(feed_url) answers for the entity Head(offices)
ParseFeed(f, budget) ==
    /\ pc = "fetching"
    /\ offices # <<>>
    /\ served + Len(f.entries) <= budget
    /\ feed' = f
    /\ served' = served + Len(f.entries)
    /\ pc' = "parsed"
    /\ UNCHANGED <<now, NEWS_CUTOFF_DATE, news, offices, per_office, limit, results,
                   op, ret, raised, deleted>>

\* the rest of the loop body for that entity
ProcessFeed ==
    /\ pc = "parsed"
    /\ LET acc == ProcessFeedOf([news |-> news, results |-> results,
                                 raised |-> FALSE],
                                Head(offices), feed, per_office,
                                NEWS_CUTOFF_DATE, now)
       IN  /\ news' = acc.news
           /\ IF acc.raised
              THEN /\ pc' = "returned"
                   /\ op' = "fetch_news_google"
                   /\ ret' = <<>>
                   /\ raised' = TRUE
                   /\ results' = <<>>
                   /\ offices' = <<>>
                   /\ feed' = NoFeed
                   /\ deleted' = {}
              ELSE /\ pc' = "fetching"
                   /\ results' = acc.results
                   /\ offices' = Tail(offices)
                   /\ UNCHANGED <<op, ret, raised, feed, deleted>>
    /\ UNCHANGED <<now, NEWS_CUTOFF_DATE, per_office, limit, served>>

\* "return results"
FetchReturn ==
    /\ pc = "fetching"
    /\ offices = <<>>
    /\ ret' = results
    /\ op' = "fetch_news_google"
    /\ raised' = FALSE
    /\ results' = <<>>
    /\ feed' = NoFeed
    /\ deleted' = {}
    /\ pc' = "returned"
    /\ UNCHANGED <<now, NEWS_CUTOFF_DATE, news, offices, per_office, limit, served>>

\* the caller takes the value and goes on
Resume ==
    /\ pc = "returned"
    /\ pc' = "idle"
    /\ ret' = <<>>
    /\ raised' = FALSE
    /\ op' = "none"
    /\ per_office' = 0
    /\ limit' = 0
    /\ served' = 0
    /\ UNCHANGED <<now, NEWS_CUTOFF_DATE, news, offices, feed, results, deleted>>

\* the runs about the clock: every instant as a free-text date, or no date
EnvClock ==
    [lists |-> {<<"A">>},
     entries |-> EntriesOf({<<"l1">>, <<"l2">>}, {<<"t">>},
                           {[published |-> [kind |-> "date", local |-> t, off |-> 0]] :
                                t \in Instants}
                           \cup {<<>>}),
     budget |-> MaxServedClock,
     caps |-> {PerOfficeDefault},
     limits |-> {1, DisplayLimit}]

\* the runs about the cap: one entity, responses longer than the cap
EnvCap ==
    [lists |-> {<<"A">>},
     entries |-> EntriesOf({<<"l1">>, <<"l3">>}, {<<"t">>},
                           {[published_parsed |-> [sec |-> 1]]})
                 \cup EntriesOf({<<"l2">>}, {<<"t">>},
                                {[published_parsed |-> [sec |-> 0]]}),
     budget |-> MaxServed,
     caps |-> {2, PerOfficeDefault},
     limits |-> {DisplayLimit}]

\* the runs about the loop over the entities: two entities, short responses
EnvPipeline ==
    [lists |-> {<<"A", "B">>},
     entries |-> EntriesOf({<<"l1">>, <<"l3">>}, {<<"t">>},
                           {[published_parsed |-> [sec |-> 1]]})
                 \cup EntriesOf({<<"l2">>}, {<<"t">>},
                                {[published_parsed |-> [sec |-> 0]]}),
     budget |-> MaxServedStore,
     caps |-> {1, PerOfficeDefault},
     limits |-> {DisplayLimit}]

Next(env) ==
    \/ Tick
    \/ ModuleLoad
    \/ ClearAllNews
    \/ \E n \in env.limits : FetchAllNews(n)
    \/ \E fos \in env.lists, cap \in env.caps :
           FetchNewsGoogle(fos, cap)
    \/ \E f \in FeedsOf(env) : ParseFeed(f, env.budget)
    \/ ProcessFeed
    \/ FetchReturn
    \/ Resume

Spec == Init /\ [][Next(EnvStore)]_vars

----------------------------------------------------------------------------
(* The read as a function of the table, the cutoff and the limit *)

\* the i-th link
LinkNo(i) == [k \in 1..i |-> "l"]

\* the tables of up to MaxRows rows, each with its own link and any instant
Tables ==
    UNION {{{[id |-> i, family_office |-> "A", title |-> <<"t">>,
              link |-> LinkNo(i), published |-> IsoFormat(f[i]),
              source |-> GoogleNews] : i \in 1..k} :
            f \in [1..k -> Instants]} : k \in 0..MaxRows}

InitQuery ==
    /\ now \in StartNow..MaxNow
    /\ NEWS_CUTOFF_DATE \in 0..(now - WindowLen)
    /\ news \in Tables
    /\ pc = "idle"
    /\ offices = <<>>
    /\ per_office = 0
    /\ limit = 0
    /\ feed = NoFeed
    /\ served = 0
    /\ results = <<>>
    /\ op = "none"
    /\ ret = <<>>
    /\ raised = FALSE
    /\ deleted = {}

NextQuery ==
    \/ \E n \in (-1)..MaxLimit \cup {DisplayLimit} : FetchAllNews(n)
    \/ Resume

SpecQuery == InitQuery /\ [][NextQuery]_vars

----------------------------------------------------------------------------
(* The normaliser as a function of the entry and the clock *)

\* a structured time: whole seconds, or one datetime() refuses
Structs == {[sec |-> x] : x \in Seconds \cup {-1}}

\* a free-text date: empty, no date at all, or a local time with its offset
Texts ==
    {[kind |-> "empty"], [kind |-> "garbage"]}
    \cup {[kind |-> "date", local |-> t + o, off |-> o] :
              t \in Instants, o \in {-MicrosPerSec, 0, MicrosPerSec}}

\* the entries with each time field set or not
TimedEntries ==
    {a @@ b @@ c :
        a \in {<<>>} \cup {[published_parsed |-> x] : x \in Structs},
        b \in {<<>>} \cup {[updated_parsed |-> x] : x \in Structs},
        c \in {<<>>} \cup {[published |-> x] : x \in Texts}}

InitNormalizer ==
    /\ now \in StartNow..MaxNow
    /\ NEWS_CUTOFF_DATE = StartNow - WindowLen
    /\ news = {}
    /\ pc = "idle"
    /\ offices = <<>>
    /\ per_office = 0
    /\ limit = 0
    /\ feed \in {[bozo |-> FALSE, entries |-> <<e>>] : e \in TimedEntries}
    /\ served = 0
    /\ results = <<>>
    /\ op = "none"
    /\ ret = <<>>
    /\ raised = FALSE
    /\ deleted = {}

\* parse_entry_published(entry) is called on the entry
ParseEntryPublished ==
    /\ pc = "idle"
    /\ LET r == parse_entry_published(feed.entries[1], now)
       IN  /\ raised' = r.raised
           /\ ret' = IF r.raised THEN <<>> ELSE <<r.dt>>
    /\ op' = "parse_entry_published"
    /\ pc' = "returned"
    /\ UNCHANGED <<now, NEWS_CUTOFF_DATE, news, offices, per_office, limit, feed,
                   served, results, deleted>>

NextNormalizer ==
    \/ ParseEntryPublished
    \/ Resume

SpecNormalizer == InitNormalizer /\ [][NextNormalizer]_vars

SpecClock == Init /\ [][Next(EnvClock)]_vars

SpecPipeline == Init /\ [][Next(EnvPipeline)]_vars

SpecCap == Init /\ [][Next(EnvCap)]_vars

----------------------------------------------------------------------------
(* What the claims speak of *)

\* the entries of the response the loop looks at
Considered == Capped(feed.entries, per_office)

\* the instant an entry is given, and whether the run's cutoff lets it pass
PublishedAt(entry) == parse_entry_published(entry, now).dt
InWindow(entry) == PublishedAt(entry) >= NEWS_CUTOFF_DATE

LinkOf(entry) == Strip(IF "link" \in DOMAIN entry THEN entry.link ELSE <<>>)
TitleOf(entry) == Strip(IF "title" \in DOMAIN entry THEN entry.title ELSE <<>>)

RowsWithLink(rows, l) == {r \in rows : r.link = l}

\* the instant an ISO text of the store stands for
FromIso(txt) ==
    LET s == (txt[1] - ChZero) * 10 + (txt[2] - ChZero)
        u == IF txt[3] = ChDot THEN txt[4] - ChZero ELSE 0
    IN  s * MicrosPerSec + u

Range(q) == {q[k] : k \in DOMAIN q}

\* what a step added to the table and to the list
NewRows == news' \ news
NewResults == {results'[k] : k \in (Len(results) + 1)..Len(results')}

UniqueLinks(rows) == \A r1, r2 \in rows : r1.link = r2.link => r1 = r2

\* the steps, told by the program counter
IsClearStep == pc = "idle" /\ pc' = "returned" /\ op' = "clear_all_news"
IsReadStep == pc = "idle" /\ pc' = "returned" /\ op' = "fetch_all_news"
IsProcessStep == pc = "parsed" /\ pc' # "parsed"
IsReturnStep == pc = "fetching" /\ pc' = "returned"

\* C1: the store never holds two records with the same link; after the saves
\* of a response, however often a link occurs among them, exactly one record
\* has that link, and no call ends with an error.
C1_OneRecordPerLink ==
    [][/\ UniqueLinks(news')
       /\ ~raised'
       /\ (IsProcessStep /\ ~feed.bozo) =>
              \A i \in DOMAIN Considered :
                  InWindow(Considered[i]) =>
                      Cardinality(RowsWithLink(news', LinkOf(Considered[i]))) = 1
      ]_vars

\* C1 witness: a run into an empty table tried the same link twice and
\* one record holds it.
C1_Witness ==
    /\ pc = "fetching"
    /\ Len(results) >= 2
    /\ results[1].link = results[2].link
    /\ news = {r \in news : r.id = 1}
    /\ Cardinality(RowsWithLink(news, results[1].link)) = 1

\* C2: a stored record is never changed and is removed only by
\* clear_all_news: every other step keeps each stored row as it is, and the
\* read changes nothing in the store.
C2_NeverUpdated ==
    [][/\ IsClearStep \/ news \subseteq news'
       /\ IsReadStep => news' = news
      ]_vars

\* C2 witness: a link already stored was saved again with another title for
\* another entity, and the row has the first title and entity.
C2_Witness ==
    /\ pc = "fetching"
    /\ \E k \in DOMAIN results : \E r \in news :
           /\ r.link = results[k].link
           /\ r.title # results[k].title
           /\ r.family_office # results[k].family_office

\* C10: clear_all_news leaves the store empty; while it is empty every read
\* returns the empty sequence; it stays empty until a fetch run inserts, and
\* then any link, one stored before the clear too, is inserted as a new
\* record.
C10_ClearEmpties ==
    [][/\ IsClearStep => news' = {}
       /\ (IsReadStep /\ news = {}) => ret' = <<>>
       /\ (news = {} /\ news' # {}) => IsProcessStep
       /\ (IsProcessStep /\ news = {} /\ ~feed.bozo /\ Considered # <<>>
              /\ InWindow(Considered[1])) =>
              \E r \in news' :
                  /\ r.link = LinkOf(Considered[1])
                  /\ r.title = TitleOf(Considered[1])
                  /\ r.family_office = Head(offices)
      ]_vars

\* C10 witness: a link the last clear removed is stored again, with another
\* title than any read could have shown between.
C10_Witness ==
    /\ pc = "fetching"
    /\ deleted # {}
    /\ \E r \in news : r.link \in deleted /\ r.id = 1

C4_ReadCutoffAtReadTime ==
    [][IsReadStep =>
          /\ news' = news
          /\ \A k \in DOMAIN ret' : FromIso(ret'[k].published) >= now - WindowLen
          /\ \A r \in news :
                 (FromIso(r.published) = now - WindowLen
                    /\ (limit' < 0 \/ limit' >= Cardinality(news))) =>
                     r \in Range(ret')
      ]_vars

\* the positions of the response within the cap, and those whose entry passes
WithinCap == 1..Min(per_office, Len(feed.entries))
PastCap == (Min(per_office, Len(feed.entries)) + 1)..Len(feed.entries)
Passing == {i \in WithinCap : InWindow(feed.entries[i])}

\* C6: a response flagged malformed adds nothing to the store or to the list,
\* whatever entries it carries, and the run goes on with the next entity; a
\* well-formed response has each passing entry within the cap stored and
\* listed for its entity; no call ends with an error.
C6_MalformedSkipped ==
    [][/\ ~raised'
       /\ (IsProcessStep /\ feed.bozo) =>
              /\ news' = news
              /\ results' = results
              /\ offices' = Tail(offices)
              /\ pc' = "fetching"
       /\ (IsProcessStep /\ ~feed.bozo) =>
              /\ offices' = Tail(offices)
              /\ pc' = "fetching"
              /\ \A i \in Passing :
                     /\ RowsWithLink(news', LinkOf(feed.entries[i])) # {}
                     /\ \E d \in NewResults :
                            /\ d.link = LinkOf(feed.entries[i])
                            /\ d.family_office = Head(offices)
      ]_vars

\* C6 witness: entity A's response was malformed and carried a passing entry,
\* nothing came of it, and B is next.
C6_Witness ==
    /\ pc = "fetching"
    /\ feed.bozo
    /\ Passing # {}
    /\ offices = <<"B">>
    /\ results = <<>>
    /\ news = {}

\* C7: the cap is applied before the filter: a step adds as many list
\* elements as entries within the cap pass, and an entry past the cap is
\* neither stored nor listed.  With cap 2, a response [passing, too old,
\* passing] of distinct links and an empty store, one record is stored.
C7_CapBeforeFilter ==
    [][(IsProcessStep /\ ~feed.bozo) =>
          /\ Len(results') - Len(results) = Cardinality(Passing)
          /\ \A i \in PastCap :
                 LET l == LinkOf(feed.entries[i])
                 IN  (\A j \in WithinCap : LinkOf(feed.entries[j]) # l) =>
                         /\ RowsWithLink(news', l) = RowsWithLink(news, l)
                         /\ \A d \in NewResults : d.link # l
          /\ (/\ per_office = 2
              /\ Len(feed.entries) = 3
              /\ InWindow(feed.entries[1])
              /\ ~InWindow(feed.entries[2])
              /\ InWindow(feed.entries[3])
              /\ Cardinality({LinkOf(feed.entries[i]) : i \in 1..3}) = 3
              /\ news = {}) =>
                 Cardinality(news') = 1
      ]_vars

\* C7 witness: cap 2, the response [passing, too old, passing] of distinct
\* links went into an empty table, and one record and one list element came
\* of it.
C7_Witness ==
    /\ pc = "fetching"
    /\ ~feed.bozo
    /\ per_office = 2
    /\ Len(feed.entries) = 3
    /\ InWindow(feed.entries[1])
    /\ ~InWindow(feed.entries[2])
    /\ InWindow(feed.entries[3])
    /\ Cardinality({LinkOf(feed.entries[i]) : i \in 1..3}) = 3
    /\ Len(results) = 1
    /\ Cardinality(news) = 1
    /\ \A r \in news : r.id = 1 /\ r.link = LinkOf(feed.entries[1])

\* the passing entries within the cap, in the provider's order
PassingSeq ==
    SelectSeq(SubSeq(feed.entries, 1, Min(per_office, Len(feed.entries))), InWindow)

\* C8: the returned list is the sequence of this run's passing entries, in
\* entity order and then provider order, one per save attempt, whether or not
\* the store took the insert.
C8_ReturnsEveryAttempt ==
    [][/\ (pc = "idle" /\ pc' = "fetching") => results' = <<>>
       /\ (IsProcessStep /\ ~raised') =>
              LET sel == IF feed.bozo THEN <<>> ELSE PassingSeq
              IN  /\ Len(results') = Len(results) + Len(sel)
                  /\ SubSeq(results', 1, Len(results)) = results
                  /\ \A k \in DOMAIN sel :
                         LET d == results'[Len(results) + k]
                         IN  /\ d.family_office = Head(offices)
                             /\ d.link = LinkOf(sel[k])
                             /\ d.title = TitleOf(sel[k])
                             /\ FromIso(d.published) = PublishedAt(sel[k])
                             /\ d.source = "Google News"
       /\ IsReturnStep => (raised' \/ (ret' = results /\ op' = "fetch_news_google"))
      ]_vars

\* C8 witness: a run returned a list that names a link twice and is longer
\* than the whole table.
C8_Witness ==
    /\ pc = "returned"
    /\ op = "fetch_news_google"
    /\ ~raised
    /\ Len(ret) > Cardinality(news)
    /\ \E i, j \in DOMAIN ret : i < j /\ ret[i].link = ret[j].link

\* the stored rows the cutoff lets pass
Recent == {r \in news : FromIso(r.published) >= NEWS_CUTOFF_DATE}

\* C5: a read with a limit >= 0 returns min(limit, k) of the k rows at or
\* after the cutoff, each once, sorted by instant non-increasing, and no such
\* row left out is later than one returned.
C5_MostRecentFirst ==
    (pc = "returned" /\ op = "fetch_all_news") =>
        /\ limit >= 0 => Len(ret) = Min(limit, Cardinality(Recent))
        /\ Range(ret) \subseteq Recent
        /\ \A i, j \in DOMAIN ret :
               i < j => /\ ret[i] # ret[j]
                        /\ FromIso(ret[i].published) >= FromIso(ret[j].published)
        /\ \A r \in Recent \ Range(ret) : \A d \in Range(ret) :
               FromIso(r.published) <= FromIso(d.published)

\* C5 witness: three rows pass, two of them tie and one is later; limit 2
\* returned the later one first and one of the tied, the other was left out.
C5_Witness ==
    /\ pc = "returned"
    /\ op = "fetch_all_news"
    /\ limit = 2
    /\ Cardinality(Recent) = 3
    /\ Cardinality(news) = 3
    /\ Len(ret) = 2
    /\ FromIso(ret[1].published) > FromIso(ret[2].published)
    /\ ret[1].id > ret[2].id
    /\ \E r \in Recent \ Range(ret) : r.published = ret[2].published

\* what the fallback chain is to give for an entry
StructOk(entry, key) == key \in DOMAIN entry /\ entry[key].sec \in Seconds
TextOk(entry) == "published" \in DOMAIN entry /\ entry.published.kind = "date"
Normalized(entry) ==
    IF StructOk(entry, "published_parsed")
    THEN entry.published_parsed.sec * MicrosPerSec
    ELSE IF StructOk(entry, "updated_parsed")
    THEN entry.updated_parsed.sec * MicrosPerSec
    ELSE IF TextOk(entry)
    THEN entry.published.local - entry.published.off
    ELSE now

\* C9: parse_entry_published never raises and returns the instant of the
\* first of structured published, structured updated, free-text published
\* that is set and converts, and the current instant when none does.
C9_FallbackChain ==
    (pc = "returned" /\ op = "parse_entry_published") =>
        /\ ~raised
        /\ ret = <<Normalized(feed.entries[1])>>

\* C9 witness: the structured published time is refused, the structured
\* updated time is missing, the free text is no date: the clock is returned;
\* (reached beside the states where an earlier step wins)
C9_Witness ==
    /\ pc = "returned"
    /\ op = "parse_entry_published"
    /\ "published_parsed" \in DOMAIN feed.entries[1]
    /\ feed.entries[1].published_parsed.sec \notin Seconds
    /\ "updated_parsed" \notin DOMAIN feed.entries[1]
    /\ "published" \in DOMAIN feed.entries[1]
    /\ feed.entries[1].published.kind = "garbage"
    /\ ret = <<now>>

====
